---- MODULE Spec2Model ----
(***************************************************************************)
(* ScholarTailor: the graph assembly and filtering engine of               *)
(* backend/services/data_service.py over the relational store of           *)
(* backend/db/models.py, with the relationship consolidation of            *)
(* backend/dao/relationship_dao.py.                                        *)
(*                                                                         *)
(* Scholar ids are TEXT in the store; the model writes them as positive    *)
(* integers.  The store is one record `db` whose fields are the tables.    *)
(***************************************************************************)
EXTENDS Integers, Sequences, FiniteSets, TLC

VARIABLES db, pc, request, result, seen

vars == <<db, pc, request, result, seen>>

(***************************************************************************)
(* Bounds of the explored inputs.                                          *)
(***************************************************************************)
MaxRows == 3          \* rows of the relationships table in the consolidation stores
MaxWeight == 2        \* largest relationship weight in the consolidation stores
NumSmall == 3         \* scholars of a small store
NumSecondary == 2     \* non-primary scholars of a large store
ExtraPrimary == 1     \* a large store holds up to SizeThreshold + ExtraPrimary primaries
MaxConnectivity == 3  \* primaries linked to one secondary of a large store
MaxShuffled == 4      \* id sets up to this size are iterated in every order
MaxOptions == 2       \* options supplied in one filter request
NumProjected == 4     \* scholars of a store of the projector specification
NumImported == 2      \* scholar ids of the import specification
MaxCoauthors == 1     \* items of the coauthors list of a scholar file
MaxFiles == 2         \* files of a data directory
MaxStoredRows == 3    \* relationship rows of a store of the import specification
MaxStoredWeight == 2  \* largest weight of such a row
MaxCustom == 1        \* triples of the file of custom relationships
ExtraMain == 1        \* a populous store holds up to MainScholarsLimit + ExtraMain primaries

(***************************************************************************)
(* Program constants.                                                      *)
(***************************************************************************)
SizeThreshold == 20          \* show_all_secondary = total_nodes_count < 20
ConnectionThreshold == 2     \* if count > 2
MainScholarsLimit == 100     \* get_main_scholars(limit=100)
RelationshipsLimit == 1000   \* get_scholar_relationsips(limit=1000)
EntitiesLimit == 100         \* get_entities_by_type(limit=100)

NoResult == [op |-> "none"]
NoRequest == [op |-> "none"]

(***************************************************************************)
(* Small helpers.                                                          *)
(***************************************************************************)
Range(s) == {s[k] : k \in 1..Len(s)}

\* s[offset+1 .. offset+limit], Python's s[offset : offset + limit]
Slice(s, offset, limit) ==
    LET hi == IF offset + limit < Len(s) THEN offset + limit ELSE Len(s)
    IN  IF offset >= Len(s) THEN <<>> ELSE SubSeq(s, offset + 1, hi)

RECURSIVE InsertDesc(_, _, _)
InsertDesc(idx, i, keys) ==
    IF idx = <<>> THEN <<i>>
    ELSE IF keys[Head(idx)] >= keys[i]
         THEN <<Head(idx)>> \o InsertDesc(Tail(idx), i, keys)
         ELSE <<i>> \o idx

RECURSIVE SortIdxDesc(_, _)
SortIdxDesc(n, keys) ==
    IF n = 0 THEN <<>> ELSE InsertDesc(SortIdxDesc(n - 1, keys), n, keys)

\* A stable descending sort of seq by the parallel sequence keys: rows of
\* equal key keep their order (ORDER BY ... DESC over the table order, and
\* list.sort(reverse=True), which is stable).
StableSortDesc(seq, keys) ==
    LET idx == SortIdxDesc(Len(seq), keys)
    IN  [k \in 1..Len(seq) |-> seq[idx[k]]]

\* Python truth value of an id: the empty string and None are falsy.  The
\* model writes the empty id as 0.
IsFalsy(id) == id = 0

(***************************************************************************)
(* RelationshipDao                                                         *)
(***************************************************************************)
get_relation_priority(relation_type) ==
    CASE relation_type = "advisor" -> 1
      [] relation_type = "colleague" -> 2
      [] relation_type = "coauthor" -> 3
      [] OTHER -> 999

\* The SELECT of get_scholar_relationsips: the rows whose source is the
\* scholar, scholar to scholar, ORDER BY weight DESC.
SelectRelations(relationships, scholar_id) ==
    LET rows == SelectSeq(relationships,
                    LAMBDA r : /\ r.source_id = scholar_id
                               /\ r.source_type = "scholar"
                               /\ r.target_type = "scholar")
    IN  StableSortDesc(rows, [k \in 1..Len(rows) |-> rows[k].weight])

\* MergeRelation with the weights of a pair added up instead of the largest
\* one kept, and the label left at the first type seen.
MergeRelation_sum(target_relationships, rel) ==
    IF IsFalsy(rel.target_id) THEN target_relationships
    ELSE IF \A k \in 1..Len(target_relationships) :
                target_relationships[k].scholar_id # rel.target_id
    THEN Append(target_relationships,
                [scholar_id |-> rel.target_id,
                 collaboration_count |-> rel.weight,
                 relation_type |-> rel.relation_type,
                 all_relation_types |-> <<rel.relation_type>>])
    ELSE LET k == CHOOSE j \in 1..Len(target_relationships) :
                      target_relationships[j].scholar_id = rel.target_id
             cur == target_relationships[k]
         IN  [target_relationships EXCEPT ![k] =
                [scholar_id |-> cur.scholar_id,
                 collaboration_count |-> cur.collaboration_count + rel.weight,
                 relation_type |-> cur.relation_type,
                 all_relation_types |->
                     Append(cur.all_relation_types, rel.relation_type)]]

\* One pass of the grouping loop: target_relationships is a dict, kept here
\* as the sequence of its values in insertion order.
MergeRelation(target_relationships, rel) ==
    IF IsFalsy(rel.target_id) THEN target_relationships
    ELSE IF \A k \in 1..Len(target_relationships) :
                target_relationships[k].scholar_id # rel.target_id
    THEN Append(target_relationships,
                [scholar_id |-> rel.target_id,
                 collaboration_count |-> rel.weight,
                 relation_type |-> rel.relation_type,
                 all_relation_types |-> <<rel.relation_type>>])
    ELSE LET k == CHOOSE j \in 1..Len(target_relationships) :
                      target_relationships[j].scholar_id = rel.target_id
             cur == target_relationships[k]
         IN  [target_relationships EXCEPT ![k] =
                [scholar_id |-> cur.scholar_id,
                 collaboration_count |->
                     IF rel.weight > cur.collaboration_count
                     THEN rel.weight ELSE cur.collaboration_count,
                 relation_type |->
                     IF get_relation_priority(rel.relation_type)
                            < get_relation_priority(cur.relation_type)
                     THEN rel.relation_type ELSE cur.relation_type,
                 all_relation_types |->
                     Append(cur.all_relation_types, rel.relation_type)]]

RECURSIVE MergeRelations(_, _)
MergeRelations(target_relationships, all_relations) ==
    IF all_relations = <<>> THEN target_relationships
    ELSE MergeRelations(MergeRelation(target_relationships, Head(all_relations)),
                        Tail(all_relations))

\* The grouping loop, the sort by collaboration_count and the slice, applied
\* to the rows in the order the query returned them.
ConsolidateRows(all_relations, limit, offset) ==
    LET collaborators == MergeRelations(<<>>, all_relations)
        sorted == StableSortDesc(collaborators,
                      [k \in 1..Len(collaborators) |->
                          collaborators[k].collaboration_count])
    IN  Slice(sorted, offset, limit)

get_scholar_relationsips(relationships, scholar_id) ==
    ConsolidateRows(SelectRelations(relationships, scholar_id),
                    RelationshipsLimit, 0)

(***************************************************************************)
(* Stores of the consolidation specification: three scholars, scholar 1    *)
(* primary, and up to MaxRows relationship rows in any table order.        *)
(***************************************************************************)
RelationTypes == {"advisor", "colleague", "coauthor", "mentor", "friend"}

Row(s, t, ty, w) ==
    [source_id |-> s, source_type |-> "scholar",
     target_id |-> t, target_type |-> "scholar",
     relation_type |-> ty, weight |-> w]

ConsRowDomain ==
    {Row(1, 2, ty, w) : ty \in RelationTypes, w \in 1..MaxWeight}
      \cup {Row(1, 3, "coauthor", w) : w \in 1..MaxWeight}
      \cup {Row(2, 1, "advisor", 1)}
      \cup {[source_id |-> 1, source_type |-> "scholar",
             target_id |-> 4, target_type |-> "institution",
             relation_type |-> "affiliated", weight |-> 1]}

RowKey(r) == <<r.source_id, r.target_id, r.relation_type>>

UniqueKeys(rows) ==
    \A i, j \in 1..Len(rows) : RowKey(rows[i]) = RowKey(rows[j]) => i = j

ConsRowSeqs ==
    {rows \in UNION {[1..n -> ConsRowDomain] : n \in 0..MaxRows} : UniqueKeys(rows)}

ScholarRow(status, citedby) ==
    [is_main_scholar |-> status, citedby |-> citedby]

BaseDb(scholars, entities, relationships) ==
    [scholars |-> scholars, entities |-> entities,
     relationships |-> relationships,
     publications |-> <<>>, authorship |-> {}]

InitCons ==
    /\ \E rows \in ConsRowSeqs :
         db = BaseDb([i \in 1..3 |-> ScholarRow(IF i = 1 THEN 1 ELSE 0, 0)],
                     [i \in 1..4 |-> IF i = 4 THEN "institution" ELSE "scholar"],
                     rows)
    /\ pc = "idle"
    /\ request = NoRequest
    /\ result = NoResult
    /\ seen = [h \in BOOLEAN |-> NoResult]

\* relationship_dao.get_scholar_relationsips(scholar_id)
GetScholarRelationsips(scholar_id) ==
    /\ pc = "idle"
    /\ request' = [op |-> "get_scholar_relationsips", scholar_id |-> scholar_id]
    /\ result' = [op |-> "get_scholar_relationsips",
                  records |-> get_scholar_relationsips(db.relationships, scholar_id)]
    /\ pc' = "done"
    /\ UNCHANGED <<db, seen>>

\* The response is handed to the caller; the request scope ends.
Return ==
    /\ pc = "done"
    /\ pc' = "idle"
    /\ request' = NoRequest
    /\ result' = NoResult
    /\ UNCHANGED <<db, seen>>

NextCons ==
    \/ \E scholar_id \in DOMAIN db.scholars : GetScholarRelationsips(scholar_id)
    \/ Return

SpecCons == InitCons /\ [][NextCons]_vars

(***************************************************************************)
(* ScholarDao and EntityDao reads.  A fetchone() result is written as a    *)
(* set: empty when no row matches, else the one row.                       *)
(***************************************************************************)
AscSeq(S) ==
    [k \in 1..Cardinality(S) |->
        CHOOSE x \in S : Cardinality({y \in S : y < x}) = k - 1]

Reverse(s) == [k \in 1..Len(s) |-> s[Len(s) + 1 - k]]

\* The orders in which a Python set of ids can be iterated.  Sets of up to
\* MaxShuffled ids are taken in every order, larger ones in two.
IterationOrders(S) ==
    IF Cardinality(S) <= MaxShuffled
    THEN {o \in [1..Cardinality(S) -> S] :
             \A i, j \in 1..Cardinality(S) : o[i] = o[j] => i = j}
    ELSE {AscSeq(S), Reverse(AscSeq(S))}

get_scholar_by_id(scholars, scholar_id) ==
    IF scholar_id \in DOMAIN scholars THEN {scholars[scholar_id]} ELSE {}

get_entity_by_id(entities, entity_id) ==
    IF entity_id \in DOMAIN entities THEN {entities[entity_id]} ELSE {}

\* SELECT s.* FROM scholars s JOIN entities e ON s.scholar_id = e.id
\* WHERE s.is_main_scholar = 1 LIMIT ? OFFSET ?   (ids, in table order)
get_main_scholars(scholars, entities, limit, offset) ==
    Slice(AscSeq({id \in DOMAIN scholars :
                     /\ id \in DOMAIN entities
                     /\ scholars[id].is_main_scholar = 1}),
          offset, limit)

\* SELECT * FROM entities WHERE type = ? LIMIT ? OFFSET ?   (ids)
get_entities_by_type(entities, entity_type, limit, offset) ==
    Slice(AscSeq({id \in DOMAIN entities : entities[id] = entity_type}),
          offset, limit)

\* IsNotInterested with the role status read from a column is_hidden, which
\* the scholars table does not have: the dict lookup yields None.
IsNotInterested_is_hidden(scholar) == FALSE

\* scholar.get("is_main_scholar") == 2
IsNotInterested(scholar) == scholar.is_main_scholar = 2

(***************************************************************************)
(* DataService.generate_data                                               *)
(***************************************************************************)
Failure(op, error) ==
    [op |-> op, failed |-> TRUE, error |-> error, nodes |-> {}, edges |-> {}]

Node(id, group) == [id |-> id, group |-> group]

\* The edge built from a consolidated record; "data" is present only when
\* the pair has more than one relation type.
Edge(source, rel) ==
    [source |-> source, target |-> rel.scholar_id,
     label |-> rel.relation_type, weight |-> rel.collaboration_count,
     all_relations |-> IF Len(rel.all_relation_types) > 1
                       THEN rel.all_relation_types ELSE <<>>]

Increment(connections, id) ==
    [x \in DOMAIN connections \cup {id} |->
        IF x = id
        THEN (IF id \in DOMAIN connections THEN connections[id] ELSE 0) + 1
        ELSE connections[x]]

\* CollectRelation with a target taken for a main scholar only once its own
\* relationships have been collected.
CollectRelation_processed(acc, scholar_id, rel, main_scholar_ids, hide, scholars) ==
    LET target_id == rel.scholar_id
        acc1 == [acc EXCEPT !.all_edges = @ \cup {Edge(scholar_id, rel)}]
        target_scholar == get_scholar_by_id(scholars, target_id)
    IN  IF target_id \in {e.source : e \in acc.all_edges} THEN acc1
        ELSE IF hide /\ target_id \in acc.not_interested THEN acc1
        ELSE IF hide /\ \E t \in target_scholar : IsNotInterested(t)
        THEN [acc1 EXCEPT !.not_interested = @ \cup {target_id}]
        ELSE [acc1 EXCEPT !.connections = Increment(@, target_id)]

\* The body of `for rel in relationships` (lines 331-382): the edge is
\* recorded, and a target outside the main scholars is counted unless it is
\* hidden.
CollectRelation(acc, scholar_id, rel, main_scholar_ids, hide, scholars) ==
    LET target_id == rel.scholar_id
        acc1 == [acc EXCEPT !.all_edges = @ \cup {Edge(scholar_id, rel)}]
        target_scholar == get_scholar_by_id(scholars, target_id)
    IN  IF target_id \in main_scholar_ids THEN acc1
        ELSE IF hide /\ target_id \in acc.not_interested THEN acc1
        ELSE IF hide /\ \E t \in target_scholar : IsNotInterested(t)
        THEN [acc1 EXCEPT !.not_interested = @ \cup {target_id}]
        ELSE [acc1 EXCEPT !.connections = Increment(@, target_id)]

RECURSIVE CollectRelations(_, _, _, _, _, _)
CollectRelations(acc, scholar_id, rels, main_scholar_ids, hide, scholars) ==
    IF rels = <<>> THEN acc
    ELSE CollectRelations(
            CollectRelation(acc, scholar_id, Head(rels), main_scholar_ids, hide, scholars),
            scholar_id, Tail(rels), main_scholar_ids, hide, scholars)

\* `for scholar_id in main_scholar_ids` (lines 321-386), in the order the
\* set is iterated.  The inner loop of a scholar without relationships does
\* nothing: only the scholars that have some are stepped through.
RECURSIVE CollectEach(_, _, _, _, _)
CollectEach(acc, order, main_scholar_ids, hide, d) ==
    IF order = <<>> THEN acc
    ELSE CollectEach(
            CollectRelations(acc, Head(order),
                get_scholar_relationsips(d.relationships, Head(order)),
                main_scholar_ids, hide, d.scholars),
            Tail(order), main_scholar_ids, hide, d)

CollectAll(acc, order, main_scholar_ids, hide, d) ==
    CollectEach(acc,
        SelectSeq(order,
            LAMBDA id : get_scholar_relationsips(d.relationships, id) # <<>>),
        main_scholar_ids, hide, d)

Restrict(f, S) == [x \in S |-> f[x]]

\* SignificantSecondary with the strict filter admitting a count of 2.
SignificantSecondary_atLeast(connections, total_nodes_count) ==
    LET high == Restrict(connections,
                    {id \in DOMAIN connections : connections[id] >= ConnectionThreshold})
    IN  IF total_nodes_count < SizeThreshold THEN connections
        ELSE IF DOMAIN high = {} THEN connections ELSE high

\* SignificantSecondary without the fallback to all secondaries.
SignificantSecondary_noFallback(connections, total_nodes_count) ==
    LET high == Restrict(connections,
                    {id \in DOMAIN connections : connections[id] > ConnectionThreshold})
    IN  IF total_nodes_count < SizeThreshold THEN connections ELSE high

\* SignificantSecondary with the strict filter applied to small graphs too.
SignificantSecondary_alwaysStrict(connections, total_nodes_count) ==
    LET high == Restrict(connections,
                    {id \in DOMAIN connections : connections[id] > ConnectionThreshold})
    IN  IF DOMAIN high = {} THEN connections ELSE high

\* Lines 395-434: the secondaries to show, as the dict id -> count.
SignificantSecondary(connections, total_nodes_count) ==
    LET high == Restrict(connections,
                    {id \in DOMAIN connections : connections[id] > ConnectionThreshold})
    IN  IF total_nodes_count < SizeThreshold THEN connections
        ELSE IF DOMAIN high = {} THEN connections ELSE high

\* Lines 437-520: the ids of the secondaries that become nodes.
SecondaryNodeIds(significant, not_interested, hide, d) ==
    {id \in DOMAIN significant :
        /\ ~(hide /\ id \in not_interested)
        /\ get_scholar_by_id(d.scholars, id) # {}
        /\ ~(hide /\ \E sc \in get_scholar_by_id(d.scholars, id) : IsNotInterested(sc))
        /\ get_entity_by_id(d.entities, id) # {}}

\* PruneEdges with every collected edge kept.
PruneEdges_keepAll(all_edges, valid_node_ids) == all_edges

\* Lines 522-528: the edges between two shown nodes.
PruneEdges(all_edges, valid_node_ids) ==
    {edge \in all_edges :
        edge.source \in valid_node_ids /\ edge.target \in valid_node_ids}

\* generate_data(hide_not_interested), the set main_scholar_ids iterated in
\* the order `order`.  The node and edge lists are kept as sets: no two
\* nodes share an id and no two edges share source and target.
generate_data(d, hide, order) ==
    LET op == "generate_data"
        main_scholars == get_main_scholars(d.scholars, d.entities, MainScholarsLimit, 0)
        filtered_scholars ==
            SelectSeq(main_scholars,
                LAMBDA id : ~(hide /\ IsNotInterested(d.scholars[id])))
        not_interested0 ==
            {id \in Range(main_scholars) : hide /\ IsNotInterested(d.scholars[id])}
        main_scholar_ids ==
            {id \in Range(filtered_scholars) : get_entity_by_id(d.entities, id) # {}}
        acc == CollectAll([all_edges |-> {}, connections |-> <<>>,
                           not_interested |-> not_interested0],
                          order, main_scholar_ids, hide, d)
        significant == SignificantSecondary(acc.connections,
                                            Cardinality(main_scholar_ids))
        secondary_ids == SecondaryNodeIds(significant, acc.not_interested, hide, d)
        nodes == {Node(id, "primary") : id \in main_scholar_ids}
                   \cup {Node(id, "secondary") : id \in secondary_ids}
    IN  IF main_scholars = <<>> THEN Failure(op, "no main scholars")
        ELSE IF filtered_scholars = <<>> THEN Failure(op, "no main scholars after filtering")
        ELSE IF main_scholar_ids = {} THEN Failure(op, "no valid nodes")
        ELSE [op |-> op, failed |-> FALSE, error |-> "",
              nodes |-> nodes,
              edges |-> PruneEdges(acc.all_edges, {n.id : n \in nodes})]

\* The ids generate_data iterates: the main scholars that became nodes.
MainScholarIds(d, hide) ==
    {id \in Range(get_main_scholars(d.scholars, d.entities, MainScholarsLimit, 0)) :
        /\ ~(hide /\ IsNotInterested(d.scholars[id]))
        /\ get_entity_by_id(d.entities, id) # {}}

(***************************************************************************)
(* Filter options.  A value of the option bag is a Python value: absent    *)
(* from the dict, a bool, an int or a str.                                 *)
(***************************************************************************)
Absent == [t |-> "absent", b |-> FALSE, n |-> 0, s |-> ""]
PyBool(b) == [t |-> "bool", b |-> b, n |-> 0, s |-> ""]
PyInt(n) == [t |-> "int", b |-> FALSE, n |-> n, s |-> ""]
PyStr(s) == [t |-> "str", b |-> FALSE, n |-> 0, s |-> s]

\* The option keys of the model.  The text, h-index, paper citation and
\* institution options of _build_filter_sql are not modelled.
OptionKeys ==
    {"hideNotInterested", "minCitations", "minCitationsLt", "minCitationsEq",
     "yearFrom", "yearTo", "yearEq", "showPrimary", "showSecondary",
     "minConnections", "showCoauthor", "showAdvisor", "showColleague"}

\* bool(value)
Truthy(v) ==
    CASE v.t = "absent" -> FALSE
      [] v.t = "bool" -> v.b
      [] v.t = "int" -> v.n # 0
      [] v.t = "str" -> v.s # ""

\* Ordering comparisons accept ints and bools (True is 1); a str raises
\* TypeError.
IsNumber(v) == v.t \in {"int", "bool"}

Num(v) == IF v.t = "bool" THEN (IF v.b THEN 1 ELSE 0) ELSE v.n

\* filter_params.get(key, default)
Get(params, key, default) ==
    IF params[key].t = "absent" THEN default ELSE params[key]

\* Lines 568-575 of filter_network_data: the flag coerced to a bool.
CoerceHide(params) ==
    LET v == Get(params, "hideNotInterested", PyBool(TRUE))
    IN  CASE v.t = "bool" -> v.b
          [] v.t = "str" -> v.s \in {"true", "True", "TRUE"}
          [] OTHER -> Truthy(v)

\* The bag after line 575: a flag that was not a bool is replaced by its
\* coerced value.
CoercedParams(params) ==
    IF Get(params, "hideNotInterested", PyBool(TRUE)).t = "bool" THEN params
    ELSE [params EXCEPT !["hideNotInterested"] = PyBool(CoerceHide(params))]

(***************************************************************************)
(* DataService._build_filter_sql                                           *)
(***************************************************************************)
\* Columns of the scholars table (SCHEMA_SQL).
ScholarsColumns ==
    {"scholar_id", "affiliation", "email_domain", "homepage", "url_picture",
     "citedby", "citedby5y", "hindex", "hindex5y", "i10index", "i10index5y",
     "cites_per_year", "public_access_available", "public_access_unavailable",
     "last_updated", "is_main_scholar"}

Clause(kind, col, op, val, conds) ==
    [kind |-> kind, col |-> col, op |-> op, val |-> val, conds |-> conds]

\* The query every failure path of _build_filter_sql falls back to.
DefaultSqlParts ==
    [where |-> <<Clause("not_null", "scholar_id", "", 0, <<>>)>>]

\* The numeric options: key, default of .get, comparison that arms the
\* predicate, and the clause it adds.
ScholarNumeric ==
    <<[key |-> "minCitations", col |-> "citedby", op |-> ">="],
      [key |-> "minCitationsLt", col |-> "citedby", op |-> "<="],
      [key |-> "minCitationsEq", col |-> "citedby", op |-> "="]>>

PublicationNumeric ==
    <<[key |-> "yearFrom", col |-> "year", op |-> ">=", default |-> 0],
      [key |-> "yearTo", col |-> "year", op |-> "<=", default |-> 9999],
      [key |-> "yearEq", col |-> "year", op |-> "=", default |-> 0]>>

\* get(key, 0) > 0, and for yearTo get(key, 9999) < 9999
Armed(params, o) ==
    LET v == Get(params, o.key, PyInt(o.default))
    IN  IF o.default = 9999 THEN Num(v) < 9999 ELSE Num(v) > 0

\* An ordering comparison of the try block meets a value that is no number.
BuildRaises(params) ==
    \E key \in {"minCitations", "minCitationsLt", "minCitationsEq",
                "yearFrom", "yearTo", "yearEq", "minConnections"} :
        params[key].t # "absent" /\ ~IsNumber(params[key])

build_filter_sql(params) ==
    LET hidden == IF params["hideNotInterested"] = PyBool(TRUE)
                  THEN <<Clause("hidden", "is_hidden", "", 0, <<>>)>> ELSE <<>>
        scholar ==
            [k \in 1..Len(ScholarNumeric) |->
                Clause("scholar", ScholarNumeric[k].col, ScholarNumeric[k].op,
                       Num(params[ScholarNumeric[k].key]), <<>>)]
        scholarArmed ==
            SelectSeq(scholar, LAMBDA c : c.val > 0)
        pubArmed ==
            SelectSeq(PublicationNumeric, LAMBDA o : Armed(params, o))
        pub_where ==
            [k \in 1..Len(pubArmed) |->
                Clause("cmp", pubArmed[k].col, pubArmed[k].op,
                       Num(params[pubArmed[k].key]), <<>>)]
        pub == IF pub_where = <<>> THEN <<>>
               ELSE <<Clause("pub", "", "", 0, pub_where)>>
        types == (IF Truthy(params["showPrimary"]) THEN <<1>> ELSE <<>>)
                   \o (IF Truthy(params["showSecondary"]) THEN <<0>> ELSE <<>>)
        node_types == IF types = <<>> THEN <<>>
                      ELSE <<Clause("node_types", "is_main_scholar", "", 0, types)>>
        min_connections == Num(Get(params, "minConnections", PyInt(1)))
        connections == IF min_connections >= 1
                       THEN <<Clause("connections", "", ">=", min_connections, <<>>)>>
                       ELSE <<>>
    IN  IF BuildRaises(params) THEN DefaultSqlParts
        ELSE [where |-> DefaultSqlParts.where \o hidden \o scholarArmed \o pub
                          \o node_types \o connections]

(***************************************************************************)
(* DataService._execute_filter_query                                       *)
(***************************************************************************)
Compare(a, op, b) ==
    CASE op = ">=" -> a >= b
      [] op = "<=" -> a <= b
      [] op = "=" -> a = b

\* sqlite3.OperationalError (no such column): a clause names a column the
\* scholars table does not have.
QueryRaises(sql_parts) ==
    \E k \in 1..Len(sql_parts.where) :
        /\ sql_parts.where[k].kind \in {"hidden", "scholar", "node_types", "not_null"}
        /\ sql_parts.where[k].col \notin ScholarsColumns

\* The number of relationship rows with the scholar at either end.
ConnectionCount(d, id) ==
    Cardinality({k \in 1..Len(d.relationships) :
                    \/ d.relationships[k].source_id = id
                    \/ d.relationships[k].target_id = id})

\* The scholar row id, joined with its authorship and publication rows,
\* passes one WHERE clause.
ClauseHolds(d, id, c) ==
    CASE c.kind = "not_null" -> TRUE
      [] c.kind = "hidden" -> d.scholars[id][c.col] = 0
      [] c.kind = "scholar" -> Compare(d.scholars[id][c.col], c.op, c.val)
      [] c.kind = "pub" ->
            \E a \in d.authorship :
                /\ a[1] = id
                /\ a[2] \in DOMAIN d.publications
                /\ \A k \in 1..Len(c.conds) :
                      Compare(d.publications[a[2]][c.conds[k].col],
                              c.conds[k].op, c.conds[k].val)
      [] c.kind = "node_types" ->
            d.scholars[id].is_main_scholar \in Range(c.conds)
      [] c.kind = "connections" -> ConnectionCount(d, id) >= c.val

\* The regular query: SELECT DISTINCT s.scholar_id ... ORDER BY s.citedby
\* DESC; an error of the store is swallowed into the empty list.
RegularQuery(d, sql_parts) ==
    IF QueryRaises(sql_parts) THEN <<>>
    ELSE LET ids == AscSeq({id \in DOMAIN d.scholars :
                        \A k \in 1..Len(sql_parts.where) :
                            ClauseHolds(d, id, sql_parts.where[k])})
         IN  StableSortDesc(ids, [k \in 1..Len(ids) |-> d.scholars[ids[k]].citedby])

\* With the flag false the candidate list is the list of scholar entities
\* (ScholarDao has no get_all_scholars and the two raw queries index a dict
\* row by 0, so the third attempt, EntityDao.get_entities_by_type, is the
\* one that answers); the regular query runs when that list is empty.
execute_filter_query(d, sql_parts, hide_not_interested) ==
    LET all_scholar_ids == get_entities_by_type(d.entities, "scholar", EntitiesLimit, 0)
    IN  IF ~hide_not_interested /\ all_scholar_ids # <<>> THEN all_scholar_ids
        ELSE RegularQuery(d, sql_parts)

(***************************************************************************)
(* DataService._generate_filtered_network_data                             *)
(***************************************************************************)
\* scholar.get("is_hidden") == 1
IsHidden(scholar) ==
    IF "is_hidden" \in ScholarsColumns THEN scholar["is_hidden"] = 1 ELSE FALSE

\* Lines 1197-1297: the candidates that become nodes.
FilteredNodeIds(d, scholar_ids, hide) ==
    {id \in Range(scholar_ids) :
        /\ get_scholar_by_id(d.scholars, id) # {}
        /\ ~(hide /\ \E sc \in get_scholar_by_id(d.scholars, id) : IsHidden(sc))
        /\ get_entity_by_id(d.entities, id) # {}}

FilteredNode(d, id) ==
    Node(id, IF d.scholars[id].is_main_scholar = 1 THEN "primary"
             ELSE IF IsHidden(d.scholars[id]) THEN "not-interested"
             ELSE "secondary")

\* Lines 1322-1333
RelationFilters(params) ==
    LET chosen ==
            {ty \in {"coauthor", "advisor", "colleague"} :
                Truthy(Get(params,
                           CASE ty = "coauthor" -> "showCoauthor"
                             [] ty = "advisor" -> "showAdvisor"
                             [] ty = "colleague" -> "showColleague",
                           PyBool(TRUE)))}
    IN  IF chosen = {} THEN {"coauthor", "advisor", "colleague"} ELSE chosen

\* The TEXT of a scholar id, as the sequence of its character codes.  The
\* ids come from the scholar_id fields of the imported files, which may hold
\* any characters: the first four ids of a store read "a", "b-c", "a-b" and
\* "c", the further ones "s" followed by one character of their own.
Dash == 45

IdText(id) ==
    CASE id = 1 -> <<97>>
      [] id = 2 -> <<98, Dash, 99>>
      [] id = 3 -> <<97, Dash, 98>>
      [] id = 4 -> <<99>>
      [] OTHER -> <<115, 1000 + id>>

\* s <= t for Python strings: by code point, a proper prefix first.
RECURSIVE TextLeq(_, _)
TextLeq(s, t) ==
    IF s = <<>> THEN TRUE
    ELSE IF t = <<>> THEN FALSE
    ELSE IF Head(s) # Head(t) THEN Head(s) < Head(t)
    ELSE TextLeq(Tail(s), Tail(t))

\* f"{min(source_id, target_id)}-{max(source_id, target_id)}"
EdgeKey(source_id, target_id) ==
    LET s == IdText(source_id)
        t == IdText(target_id)
    IN  IF TextLeq(s, t) THEN s \o <<Dash>> \o t ELSE t \o <<Dash>> \o s

\* ProjectRelation with the test of the label against the relation filter
\* left out.
ProjectRelation_anyLabel(acc, source_id, rel, valid_scholar_ids, relation_filters) ==
    LET target_id == rel.scholar_id
        edge_key == EdgeKey(source_id, target_id)
    IN  IF IsFalsy(target_id) THEN acc
        ELSE IF target_id \in valid_scholar_ids
        THEN IF edge_key \in acc.processed_edges THEN acc
             ELSE [edges |-> acc.edges \cup {Edge(source_id, rel)},
                   processed_edges |-> acc.processed_edges \cup {edge_key}]
        ELSE acc

\* The body of `for rel in relationships` (lines 1346-1385).
ProjectRelation(acc, source_id, rel, valid_scholar_ids, relation_filters) ==
    LET target_id == rel.scholar_id
        edge_key == EdgeKey(source_id, target_id)
    IN  IF IsFalsy(target_id) THEN acc
        ELSE IF target_id \in valid_scholar_ids /\ rel.relation_type \in relation_filters
        THEN IF edge_key \in acc.processed_edges THEN acc
             ELSE [edges |-> acc.edges \cup {Edge(source_id, rel)},
                   processed_edges |-> acc.processed_edges \cup {edge_key}]
        ELSE acc

RECURSIVE ProjectRelations(_, _, _, _, _)
ProjectRelations(acc, source_id, rels, valid_scholar_ids, relation_filters) ==
    IF rels = <<>> THEN acc
    ELSE ProjectRelations(
            ProjectRelation(acc, source_id, Head(rels), valid_scholar_ids, relation_filters),
            source_id, Tail(rels), valid_scholar_ids, relation_filters)

\* `for source_id in valid_scholar_ids` (lines 1339-1388), in the order the
\* set is iterated.
RECURSIVE ProjectAll(_, _, _, _, _)
ProjectAll(acc, order, valid_scholar_ids, relation_filters, d) ==
    IF order = <<>> THEN acc
    ELSE ProjectAll(
            ProjectRelations(acc, Head(order),
                get_scholar_relationsips(d.relationships, Head(order)),
                valid_scholar_ids, relation_filters),
            Tail(order), valid_scholar_ids, relation_filters, d)

generate_filtered_network_data(d, scholar_ids, params, hide, order) ==
    LET valid_scholar_ids == FilteredNodeIds(d, scholar_ids, hide)
        acc == ProjectAll([edges |-> {}, processed_edges |-> {}], order,
                          valid_scholar_ids, RelationFilters(params), d)
    IN  [nodes |-> {FilteredNode(d, id) : id \in valid_scholar_ids},
         edges |-> IF valid_scholar_ids = {} THEN {} ELSE acc.edges]

(***************************************************************************)
(* DataService.filter_network_data                                         *)
(***************************************************************************)
\* The candidate list: _build_filter_sql then _execute_filter_query.
FilterCandidates(d, params) ==
    execute_filter_query(d, build_filter_sql(CoercedParams(params)),
                         CoerceHide(params))

filter_network_data(d, params, order) ==
    LET hide == CoerceHide(params)
        scholar_ids == FilterCandidates(d, params)
        data == generate_filtered_network_data(d, scholar_ids,
                    CoercedParams(params), hide, order)
    IN  [op |-> "filter_network_data", failed |-> FALSE, error |-> "",
         hide |-> hide, candidates |-> Range(scholar_ids),
         nodes |-> IF scholar_ids = <<>> THEN {} ELSE data.nodes,
         edges |-> IF scholar_ids = <<>> THEN {} ELSE data.edges]

(***************************************************************************)
(* Stores of the graph specifications.                                     *)
(***************************************************************************)
\* A small store: NumSmall scholars of any role status, each with an entity
\* and one publication, and any sub-list of SmallRows as relationships.
SmallRows ==
    <<Row(1, 2, "coauthor", 2), Row(2, 1, "coauthor", 2), Row(1, 2, "advisor", 1),
      Row(1, 3, "coauthor", 1), Row(2, 3, "mentor", 1)>>

SubList(rows, keep) == SelectSeq(rows, LAMBDA r : r \in keep)

SmallCitedby(i) == IF i % 2 = 1 THEN 150 ELSE 50

SmallYear(i) == IF i % 3 = 0 THEN 2019 ELSE 2021

SmallDb(status, keep) ==
    [scholars |-> [i \in 1..NumSmall |-> ScholarRow(status[i], SmallCitedby(i))],
     entities |-> [i \in 1..NumSmall |-> "scholar"],
     relationships |-> SubList(SmallRows, keep),
     publications |-> [i \in 1..NumSmall |-> [year |-> SmallYear(i)]],
     authorship |-> {<<i, i>> : i \in 1..NumSmall}]

SmallDbs ==
    {SmallDb(status, keep) :
        status \in [1..NumSmall -> {0, 1, 2}], keep \in SUBSET Range(SmallRows)}

\* The rows j <- q of a large store in table order: secondary j (id np + j)
\* is the target of a coauthor row from each primary q <= conn[j].
RECURSIVE AscSeqRows(_, _, _)
AscSeqRows(pairs, np, conn) ==
    IF pairs = {} THEN <<>>
    ELSE LET m == CHOOSE x \in pairs :
                    \A y \in pairs : x[1] < y[1] \/ (x[1] = y[1] /\ x[2] <= y[2])
             rest == AscSeqRows(pairs \ {m}, np, conn)
         IN  IF m[2] <= conn[m[1]]
             THEN <<Row(m[2], np + m[1], "coauthor", 1)>> \o rest
             ELSE rest

\* A large store: primaries 1..np around the size threshold, then
\* NumSecondary further scholars, each Secondary or NotInterested and each
\* the target of a coauthor row from the primaries 1..conn[j]; the last of
\* them may be an entity without a scholars row.  Primaries 1 and 2 are
\* coauthors and primaries 3 and 4 point at primary 1.  (Foreign keys are
\* on: both ends of a relationship row have an entity record.)
LargeDb(np, status, conn, lastHasScholar) ==
    LET n == np + NumSecondary IN
    [scholars |-> [i \in (1..n) \ (IF lastHasScholar THEN {} ELSE {n}) |->
                     ScholarRow(IF i <= np THEN 1 ELSE status[i - np], 0)],
     entities |-> [i \in 1..n |-> "scholar"],
     relationships |->
        <<Row(1, 2, "coauthor", 1), Row(2, 1, "coauthor", 1),
          Row(3, 1, "coauthor", 1), Row(4, 1, "advisor", 1)>> \o
        AscSeqRows({<<j, q>> : j \in 1..NumSecondary, q \in 1..MaxConnectivity}, np, conn),
     publications |-> <<>>,
     authorship |-> {}]

LargeDbs ==
    {LargeDb(np, status, conn, e) :
        np \in (SizeThreshold - 1)..(SizeThreshold + ExtraPrimary),
        status \in [1..NumSecondary -> {0, 2}],
        conn \in [1..NumSecondary -> 0..MaxConnectivity],
        e \in BOOLEAN}

InitRequest ==
    /\ pc = "idle"
    /\ request = NoRequest
    /\ result = NoResult
    /\ seen = [h \in BOOLEAN |-> NoResult]

InitSmall == db \in SmallDbs /\ InitRequest

InitAssembly == db \in (SmallDbs \cup LargeDbs) /\ InitRequest

(***************************************************************************)
(* Requests.                                                               *)
(***************************************************************************)
\* generate_data(hide_not_interested)
GenerateData(hide) ==
    /\ pc = "idle"
    /\ \E order \in IterationOrders(MainScholarIds(db, hide)) :
          result' = generate_data(db, hide, order)
    /\ request' = [op |-> "generate_data", hide |-> hide]
    /\ pc' = "done"
    /\ UNCHANGED <<db, seen>>

\* The response is handed to a caller that keeps the graph it got for each
\* value of the flag.
ReturnRemember ==
    /\ pc = "done"
    /\ request.op = "generate_data"
    /\ seen' = [seen EXCEPT ![request.hide] = result]
    /\ pc' = "idle"
    /\ request' = NoRequest
    /\ result' = NoResult
    /\ UNCHANGED db

NextAssembly ==
    \/ \E hide \in BOOLEAN : GenerateData(hide)
    \/ ReturnRemember

SpecAssembly == InitAssembly /\ [][NextAssembly]_vars

\* The option bags of the requests: at most MaxOptions options supplied.
OptionChoices ==
    [hideNotInterested |-> {PyBool(TRUE), PyBool(FALSE), PyStr("true")},
     minCitations |-> {PyInt(100), PyStr("abc")},
     minCitationsLt |-> {},
     minCitationsEq |-> {},
     yearFrom |-> {PyInt(2020)},
     yearTo |-> {PyInt(2020)},
     yearEq |-> {},
     showPrimary |-> {PyBool(TRUE)},
     showSecondary |-> {PyBool(TRUE)},
     minConnections |-> {PyInt(0), PyInt(2)},
     showCoauthor |-> {PyBool(FALSE)},
     showAdvisor |-> {PyBool(FALSE)},
     showColleague |-> {PyBool(FALSE)}]

Supplied(params) == {key \in OptionKeys : params[key].t # "absent"}

OptionBags ==
    UNION {{[key \in OptionKeys |-> IF key \in keys THEN f[key] ELSE Absent] :
               f \in {g \in [keys -> UNION {OptionChoices[k] : k \in keys}] :
                         \A k \in keys : g[k] \in OptionChoices[k]}} :
           keys \in {K \in SUBSET {k \in OptionKeys : OptionChoices[k] # {}} :
                        Cardinality(K) <= MaxOptions}}

\* filter_network_data(filter_params)
FilterNetworkData(params) ==
    /\ pc = "idle"
    /\ LET hide == CoerceHide(params)
           valid == FilteredNodeIds(db, FilterCandidates(db, params), hide)
       IN  \E order \in IterationOrders(valid) :
              result' = filter_network_data(db, params, order)
    /\ request' = [op |-> "filter_network_data", params |-> params]
    /\ pc' = "done"
    /\ UNCHANGED <<db, seen>>

Next ==
    \/ \E hide \in BOOLEAN : GenerateData(hide)
    \/ \E params \in OptionBags : FilterNetworkData(params)
    \/ Return

Spec == InitSmall /\ [][Next]_vars

(***************************************************************************)
(* The projector specification: filter requests that vary the relation     *)
(* display options, over stores of NumProjected scholars whose ids hold    *)
(* the separator of the de-duplication key.                                *)
(***************************************************************************)
ProjectedRows ==
    <<Row(1, 2, "coauthor", 1), Row(2, 1, "coauthor", 1),
      Row(3, 4, "coauthor", 1), Row(4, 3, "coauthor", 1),
      Row(1, 3, "advisor", 1), Row(2, 4, "mentor", 1)>>

\* Scholars 1 .. NumProjected - 1 are Primary, the last one has any role
\* status.
ProjectedDb(last, keep) ==
    [scholars |-> [i \in 1..NumProjected |->
                     ScholarRow(IF i < NumProjected THEN 1 ELSE last, SmallCitedby(i))],
     entities |-> [i \in 1..NumProjected |-> "scholar"],
     relationships |-> SubList(ProjectedRows, keep),
     publications |-> [i \in 1..NumProjected |-> [year |-> SmallYear(i)]],
     authorship |-> {<<i, i>> : i \in 1..NumProjected}]

ProjectedDbs ==
    {ProjectedDb(last, keep) :
        last \in {0, 1, 2}, keep \in SUBSET Range(ProjectedRows)}

InitProjector == db \in ProjectedDbs /\ InitRequest

\* The option bags of the projector requests: the flag absent or false, and
\* each relation display option absent, true or false.
ProjectorBags ==
    {[key \in OptionKeys |->
        CASE key = "hideNotInterested" -> hide
          [] key = "showCoauthor" -> show[1]
          [] key = "showAdvisor" -> show[2]
          [] key = "showColleague" -> show[3]
          [] OTHER -> Absent] :
        hide \in {Absent, PyBool(FALSE)},
        show \in [1..3 -> {Absent, PyBool(TRUE), PyBool(FALSE)}]}

NextProjector ==
    \/ \E params \in ProjectorBags : FilterNetworkData(params)
    \/ Return

SpecProjector == InitProjector /\ [][NextProjector]_vars

(***************************************************************************)
(* The write path: the shared connection, the DAO writes, the import       *)
(* routes and add_relationship.                                            *)
(***************************************************************************)
\* is_main_scholar = None: the column holds NULL.
Null == 0 - 1

\* The tables the write path changes.
Tables(store) ==
    [scholars |-> store.scholars, entities |-> store.entities,
     relationships |-> store.relationships]

NoTables == [scholars |-> <<>>, entities |-> <<>>, relationships |-> <<>>]

\* DBManager is a singleton holding one connection: view is what a read on
\* the connection returns, committed is what the last commit saved, and
\* in_transaction tells whether a transaction is open on it.
Open(store) ==
    [view |-> Tables(store), committed |-> store.saved,
     in_transaction |-> store.in_transaction]

Close(store, conn) ==
    [store EXCEPT !.scholars = conn.view.scholars,
                  !.entities = conn.view.entities,
                  !.relationships = conn.view.relationships,
                  !.saved = conn.committed,
                  !.in_transaction = conn.in_transaction]

\* An INSERT, UPDATE or DELETE opens a transaction when none is open.
Dml(conn, view) == [conn EXCEPT !.view = view, !.in_transaction = TRUE]

\* "BEGIN TRANSACTION"; the error raised when a transaction is already open
\* is swallowed.
begin_transaction(conn) == [conn EXCEPT !.in_transaction = TRUE]

\* "PRAGMA autocommit" returns no row, so commit always commits.
commit(conn) == [conn EXCEPT !.committed = conn.view, !.in_transaction = FALSE]

rollback(conn) == [conn EXCEPT !.view = conn.committed, !.in_transaction = FALSE]

Put(f, k, v) == [x \in DOMAIN f \cup {k} |-> IF x = k THEN v ELSE f[x]]

scholar_exists(tables, scholar_id) == scholar_id \in DOMAIN tables.scholars

entity_exists(tables, entity_id) == entity_id \in DOMAIN tables.entities

\* ScholarDao.update_scholar: with a status, only the status is written;
\* without one, the detail fields (citedby 0 for the files of the model).
\* Both branches commit.
update_scholar(conn, scholar_id, is_main_scholar) ==
    IF is_main_scholar # Null
    THEN commit(Dml(conn, [conn.view EXCEPT
                    !.scholars[scholar_id].is_main_scholar = is_main_scholar]))
    ELSE commit(Dml(conn, [conn.view EXCEPT !.scholars[scholar_id].citedby = 0]))

\* ScholarDao.create_scholar: an existing row is updated, a new one is
\* inserted and not committed.
create_scholar(conn, scholar_id, is_main_scholar) ==
    IF scholar_exists(conn.view, scholar_id)
    THEN update_scholar(conn, scholar_id, is_main_scholar)
    ELSE Dml(conn, [conn.view EXCEPT !.scholars =
                        Put(@, scholar_id, ScholarRow(is_main_scholar, 0))])

\* create_coauthor writing role status 0 over the row of a scholar that is
\* already stored.
create_coauthor_reset(conn, coauthor_id) ==
    Dml(conn, [conn.view EXCEPT !.scholars =
                  Put(@, coauthor_id, ScholarRow(0, 0))])

\* ScholarDao.create_coauthor: a new row has role status 0; not committed.
create_coauthor(conn, coauthor_id) ==
    IF scholar_exists(conn.view, coauthor_id)
    THEN conn
    ELSE Dml(conn, [conn.view EXCEPT !.scholars =
                        Put(@, coauthor_id, ScholarRow(0, 0))])

\* EntityDao.create_entity: nothing for an existing id; otherwise the
\* insert is followed by a commit.
create_entity(conn, id) ==
    IF entity_exists(conn.view, id)
    THEN conn
    ELSE commit(Dml(conn, [conn.view EXCEPT !.entities = Put(@, id, "scholar")]))

SameTriple(r, source_id, target_id, relation_type) ==
    /\ r.source_id = source_id
    /\ r.target_id = target_id
    /\ r.source_type = "scholar"
    /\ r.target_type = "scholar"
    /\ r.relation_type = relation_type

relationship_exists(tables, source_id, target_id, relation_type) ==
    \E k \in 1..Len(tables.relationships) :
        SameTriple(tables.relationships[k], source_id, target_id, relation_type)

\* UPDATE relationships SET weight = weight + ? WHERE <triple>; commit.
update_relationship_weight(conn, source_id, target_id, relation_type, weight_delta) ==
    commit(Dml(conn, [conn.view EXCEPT !.relationships =
        [k \in 1..Len(@) |->
            IF SameTriple(@[k], source_id, target_id, relation_type)
            THEN [@[k] EXCEPT !.weight = @ + weight_delta]
            ELSE @[k]]]))

\* INSERT INTO relationships; commit.  The insert of a row whose endpoint
\* has no entity violates the foreign key, and the handler rolls back.
InsertRelationship(conn, source_id, target_id, relation_type, weight) ==
    IF entity_exists(conn.view, source_id) /\ entity_exists(conn.view, target_id)
    THEN commit(Dml(conn, [conn.view EXCEPT !.relationships =
                    Append(@, Row(source_id, target_id, relation_type, weight))]))
    ELSE rollback(conn)

\* The write of create_relationship with the existence test made again at
\* the time of the write.
WriteRelationship_recheck(conn, exists, source_id, target_id, relation_type, weight) ==
    IF relationship_exists(conn.view, source_id, target_id, relation_type)
    THEN update_relationship_weight(conn, source_id, target_id, relation_type, weight)
    ELSE InsertRelationship(conn, source_id, target_id, relation_type, weight)

\* The write of create_relationship, given the answer its existence test
\* returned: a weight increment, or an insert.
WriteRelationship(conn, exists, source_id, target_id, relation_type, weight) ==
    IF exists
    THEN update_relationship_weight(conn, source_id, target_id, relation_type, weight)
    ELSE InsertRelationship(conn, source_id, target_id, relation_type, weight)

create_relationship(conn, source_id, target_id, relation_type, weight) ==
    WriteRelationship(conn,
                      relationship_exists(conn.view, source_id, target_id, relation_type),
                      source_id, target_id, relation_type, weight)

\* create_relationships_batch: the values to insert, a coauthor tuple being
\* skipped when its unordered pair was met earlier in the batch.
RECURSIVE BatchValues(_, _)
BatchValues(relationship_data, processed_pairs) ==
    IF relationship_data = <<>> THEN <<>>
    ELSE LET t == Head(relationship_data)
             relation_pair == {t.source_id, t.target_id}
         IN  IF relation_pair \in processed_pairs /\ t.relation_type = "coauthor"
             THEN BatchValues(Tail(relationship_data), processed_pairs)
             ELSE <<t>> \o BatchValues(Tail(relationship_data),
                                       processed_pairs \cup {relation_pair})

\* INSERT OR REPLACE on a table without a unique key over the triple: every
\* value is inserted.  The batch commits.
create_relationships_batch(conn, relationship_data) ==
    IF relationship_data = <<>> THEN conn
    ELSE commit(Dml(conn, [conn.view EXCEPT !.relationships =
                    @ \o BatchValues(relationship_data, {})]))

\* A scholar file: the scholar id, the coauthors list, whose items are
\* records with a scholar_id or values of another type, and the value of
\* "publications", an empty list or a value that is not a list.
CoauthorItem(id) == [t |-> "dict", scholar_id |-> id]

NotADict == [t |-> "int", scholar_id |-> 0]

ScholarFile(scholar_id, coauthors, publications) ==
    [scholar_id |-> scholar_id, coauthors |-> coauthors,
     publications |-> publications]

ImportedIds == 1..NumImported

ScholarFiles ==
    UNION {{ScholarFile(id, coauthors, publications) :
               coauthors \in UNION {[1..n -> {CoauthorItem(c) : c \in ImportedIds \ {id}}
                                              \cup {NotADict}] : n \in 0..MaxCoauthors},
               publications \in {"list", "malformed"}} :
           id \in ImportedIds}

\* ScholarImporter._import_coauthor: an item that is not a record raises
\* before any write and the coauthor is skipped.
import_coauthor(conn, scholar_id, coauthor_data) ==
    IF coauthor_data.t # "dict" THEN conn
    ELSE LET coauthor_id == coauthor_data.scholar_id
             c1 == create_coauthor(conn, coauthor_id)
             c2 == create_entity(c1, coauthor_id)
             c3 == create_relationship(c2, scholar_id, coauthor_id, "coauthor", 1)
         IN  create_relationship(c3, coauthor_id, scholar_id, "coauthor", 1)

RECURSIVE import_coauthors(_, _, _)
import_coauthors(conn, scholar_id, coauthors) ==
    IF coauthors = <<>> THEN conn
    ELSE import_coauthors(import_coauthor(conn, scholar_id, Head(coauthors)),
                          scholar_id, Tail(coauthors))

\* ScholarImporter._import_scholar_data: the scholar row with role status
\* 1, the entity, then the publications, whose malformed value raises, then
\* the coauthors.
import_scholar_data(conn, scholar_id, data) ==
    LET c1 == create_scholar(conn, scholar_id, 1)
        c2 == create_entity(c1, scholar_id)
    IN  IF data.publications = "malformed"
        THEN [conn |-> c2, success |-> FALSE]
        ELSE [conn |-> import_coauthors(c2, scholar_id, data.coauthors),
              success |-> TRUE]

\* ScholarImporter.import_scholar_file
import_scholar_file(conn, data) ==
    LET r == import_scholar_data(begin_transaction(conn), data.scholar_id, data)
    IN  [conn |-> IF r.success THEN commit(r.conn) ELSE rollback(r.conn),
         success |-> r.success]

RECURSIVE CreateCoauthors(_, _)
CreateCoauthors(conn, coauthors) ==
    IF coauthors = <<>> THEN conn
    ELSE CreateCoauthors(create_coauthor(conn, Head(coauthors).scholar_id),
                         Tail(coauthors))

RECURSIVE RelationshipData(_, _)
RelationshipData(scholar_id, coauthors) ==
    IF coauthors = <<>> THEN <<>>
    ELSE <<Row(scholar_id, Head(coauthors).scholar_id, "coauthor", 1),
           Row(Head(coauthors).scholar_id, scholar_id, "coauthor", 1)>>
         \o RelationshipData(scholar_id, Tail(coauthors))

\* ScholarService._batch_import_coauthors: the coauthor rows, then, when a
\* coauthor has no entity yet, the call of EntityDao.create_entities_batch,
\* a method EntityDao does not have: the error ends the batch before the
\* relationships are written.
batch_import_coauthors(conn, scholar_id, coauthors) ==
    IF coauthors = <<>> THEN conn
    ELSE LET c1 == CreateCoauthors(conn, coauthors)
         IN  IF \E k \in 1..Len(coauthors) :
                    ~entity_exists(conn.view, coauthors[k].scholar_id)
             THEN c1
             ELSE create_relationships_batch(c1, RelationshipData(scholar_id, coauthors))

\* ScholarService._import_scholar_complete: the scholar row with the given
\* role status, the entity, the interests (a DELETE), the publications and
\* the coauthors; a malformed publications value or a coauthor item that is
\* not a record raises.
import_scholar_complete(conn, scholar_id, scholar_data, is_main_scholar) ==
    LET c1 == create_scholar(conn, scholar_id, is_main_scholar)
        c2 == create_entity(c1, scholar_id)
        c3 == Dml(c2, c2.view)
    IN  IF scholar_data.publications = "malformed"
        THEN [conn |-> c3, success |-> FALSE]
        ELSE IF \E k \in 1..Len(scholar_data.coauthors) :
                    scholar_data.coauthors[k].t # "dict"
        THEN [conn |-> c3, success |-> FALSE]
        ELSE [conn |-> batch_import_coauthors(c3, scholar_id, scholar_data.coauthors),
              success |-> TRUE]

\* The body of the loop of DataService.import_data for one file.
import_data_file(conn, scholar_data) ==
    LET r == import_scholar_complete(begin_transaction(conn), scholar_data.scholar_id,
                                     scholar_data, Null)
    IN  [conn |-> IF r.success THEN commit(r.conn) ELSE rollback(r.conn),
         success |-> r.success]

\* DataService._clear_database_tables: every table is emptied; the file of
\* custom relationships is not a table.
ClearedStore(store) ==
    [store EXCEPT !.scholars = <<>>, !.entities = <<>>, !.relationships = <<>>,
                  !.saved = NoTables]

\* import_all_scholar_files: the importer over the files of the directory.
RECURSIVE import_all_scholar_files(_, _)
import_all_scholar_files(conn, files) ==
    IF files = <<>> THEN conn
    ELSE import_all_scholar_files(import_scholar_file(conn, Head(files)).conn,
                                  Tail(files))

\* The store after construction: the schema is created, the tables and the
\* file of custom relationships are empty.
EmptyStore ==
    [scholars |-> <<>>, entities |-> <<>>, relationships |-> <<>>,
     publications |-> <<>>, authorship |-> {},
     saved |-> NoTables, in_transaction |-> FALSE, custom |-> {}]

InitImport == db = EmptyStore /\ InitRequest

\* The stores the model follows: relationship rows and weights are capped.
Bounded(store) ==
    /\ Len(store.relationships) <= MaxStoredRows
    /\ \A k \in 1..Len(store.relationships) :
           store.relationships[k].weight <= MaxStoredWeight
    /\ Cardinality(store.custom) <= MaxCustom

\* ScholarImporter.import_scholar_file(file_path)
ImportScholarFile(data) ==
    /\ pc = "idle"
    /\ LET r == import_scholar_file(Open(db), data)
       IN  /\ Bounded(Close(db, r.conn))
           /\ db' = Close(db, r.conn)
           /\ result' = [op |-> "import_scholar_file", success |-> r.success]
    /\ request' = [op |-> "import_scholar_file", data |-> data, before |-> db]
    /\ pc' = "done"
    /\ UNCHANGED seen

\* ScholarService.add_scholar_by_id(scholar_id), data being what the crawler
\* returns for the id.  The handler neither commits nor rolls back at its
\* end.
AddScholarById(data) ==
    /\ pc = "idle"
    /\ LET r == import_scholar_complete(Open(db), data.scholar_id, data, 1)
       IN  /\ Bounded(Close(db, r.conn))
           /\ db' = Close(db, r.conn)
           /\ result' = [op |-> "add_scholar_by_id", success |-> r.success]
    /\ request' = [op |-> "add_scholar_by_id", data |-> data, before |-> db]
    /\ pc' = "done"
    /\ UNCHANGED seen

\* RelationshipService.add_relationship(source_id, target_id, relation_type):
\* a triple already in the file of custom relationships is refused;
\* otherwise it is added to the file and create_relationship is called, its
\* outcome being ignored.
AddRelationship(source_id, target_id, relation_type) ==
    /\ pc = "idle"
    /\ LET triple == <<source_id, target_id, relation_type>>
           conn == create_relationship(Open(db), source_id, target_id, relation_type, 1)
       IN  IF triple \in db.custom
           THEN /\ db' = db
                /\ result' = [op |-> "add_relationship", success |-> FALSE]
           ELSE /\ Bounded([Close(db, conn) EXCEPT !.custom = @ \cup {triple}])
                /\ db' = [Close(db, conn) EXCEPT !.custom = @ \cup {triple}]
                /\ result' = [op |-> "add_relationship", success |-> TRUE]
    /\ request' = [op |-> "add_relationship", source_id |-> source_id,
                   target_id |-> target_id, relation_type |-> relation_type,
                   before |-> db]
    /\ pc' = "done"
    /\ UNCHANGED seen

\* The files of a data directory, in the order they are read.
Directories == UNION {[1..n -> ScholarFiles] : n \in 1..MaxFiles}

\* DataService.import_data(data_dir), first part: initialize_database with
\* force_reload.  _clear_database_tables works on a connection of its own
\* and fails when the shared connection holds a transaction.  When the
\* service's scholars directory exists (own_dir), import_all_scholar_files
\* imports its files and then calls a RelationshipDao method that does not
\* exist, so it reports no success and import_data returns the failure.
ImportDataBegin(files, own_dir) ==
    /\ pc = "idle"
    /\ IF db.in_transaction
       THEN /\ db' = db
            /\ result' = [op |-> "import_data", success |-> FALSE]
            /\ pc' = "done"
       ELSE IF own_dir
       THEN /\ Bounded(Close(db, import_all_scholar_files(Open(ClearedStore(db)), files)))
            /\ db' = Close(db, import_all_scholar_files(Open(ClearedStore(db)), files))
            /\ result' = [op |-> "import_data", success |-> FALSE]
            /\ pc' = "done"
       ELSE /\ db' = ClearedStore(db)
            /\ result' = NoResult
            /\ pc' = "importing"
    /\ request' = [op |-> "import_data", files |-> files, own_dir |-> own_dir,
                   next |-> 1, imported_count |-> 0,
                   before |-> db, success |-> TRUE]
    /\ UNCHANGED seen

\* The loop of import_data: one file through _import_scholar_complete
\* without a role status, inside begin_transaction and commit or rollback.
ImportDataFile ==
    /\ pc = "importing"
    /\ request.next <= Len(request.files)
    /\ LET r == import_data_file(Open(db), request.files[request.next])
       IN  /\ db' = Close(db, r.conn)
           /\ request' = [request EXCEPT
                             !.next = @ + 1,
                             !.imported_count = IF r.success THEN @ + 1 ELSE @,
                             !.before = db,
                             !.success = r.success]
    /\ UNCHANGED <<pc, result, seen>>

\* import_data returns after its last file.
ImportDataEnd ==
    /\ pc = "importing"
    /\ request.next > Len(request.files)
    /\ result' = [op |-> "import_data", success |-> request.imported_count > 0]
    /\ pc' = "done"
    /\ UNCHANGED <<db, request, seen>>

AddedTypes == {"coauthor", "advisor"}

NextImport ==
    \/ \E data \in ScholarFiles : ImportScholarFile(data)
    \/ \E data \in ScholarFiles : AddScholarById(data)
    \/ \E source_id \in ImportedIds, target_id \in ImportedIds,
          relation_type \in AddedTypes :
            source_id # target_id /\ AddRelationship(source_id, target_id, relation_type)
    \/ \E files \in Directories, own_dir \in BOOLEAN : ImportDataBegin(files, own_dir)
    \/ ImportDataFile
    \/ ImportDataEnd
    \/ Return

SpecImport == InitImport /\ [][NextImport]_vars

(***************************************************************************)
(* Two importers calling create_relationship for the same triple at the    *)
(* same time.  A call is two steps: the existence test, then the write     *)
(* with its commit.                                                        *)
(***************************************************************************)
RaceRows ==
    <<Row(1, 2, "coauthor", 1), Row(2, 1, "coauthor", 1), Row(1, 2, "advisor", 1)>>

\* Two scholars with their entities and some of the rows, all committed.
RaceDb(keep) ==
    [EmptyStore EXCEPT
        !.scholars = [i \in 1..2 |-> ScholarRow(1, 0)],
        !.entities = [i \in 1..2 |-> "scholar"],
        !.relationships = SubList(RaceRows, keep),
        !.saved = [scholars |-> [i \in 1..2 |-> ScholarRow(1, 0)],
                   entities |-> [i \in 1..2 |-> "scholar"],
                   relationships |-> SubList(RaceRows, keep)]]

RaceDbs == {RaceDb(keep) : keep \in SUBSET Range(RaceRows)}

InitRace == db \in RaceDbs /\ InitRequest

Callers == {1, 2}

\* Both importers enter create_relationship with the same triple.
BeginCalls(source_id, target_id, relation_type, weights) ==
    /\ pc = "idle"
    /\ Bounded(db)
    /\ request' = [op |-> "create_relationship", source_id |-> source_id,
                   target_id |-> target_id, relation_type |-> relation_type,
                   before |-> db,
                   calls |-> [p \in Callers |->
                                [at |-> "check", exists |-> FALSE,
                                 weight |-> weights[p]]]]
    /\ pc' = "calling"
    /\ UNCHANGED <<db, result, seen>>

\* relationship_exists, as called by create_relationship
CheckCall(p) ==
    /\ pc = "calling"
    /\ request.calls[p].at = "check"
    /\ request' = [request EXCEPT
                      !.calls[p].at = "write",
                      !.calls[p].exists =
                          relationship_exists(Tables(db), request.source_id,
                                              request.target_id, request.relation_type)]
    /\ UNCHANGED <<db, pc, result, seen>>

\* The weight increment or the insert, and the commit.
WriteCall(p) ==
    /\ pc = "calling"
    /\ request.calls[p].at = "write"
    /\ db' = Close(db, WriteRelationship(Open(db), request.calls[p].exists,
                                         request.source_id, request.target_id,
                                         request.relation_type,
                                         request.calls[p].weight))
    /\ request' = [request EXCEPT !.calls[p].at = "done"]
    /\ IF \A q \in Callers \ {p} : request.calls[q].at = "done"
       THEN /\ pc' = "done"
            /\ result' = [op |-> "create_relationship", success |-> TRUE]
       ELSE UNCHANGED <<pc, result>>
    /\ UNCHANGED seen

NextRace ==
    \/ \E source_id \in 1..2, target_id \in 1..2, relation_type \in AddedTypes,
          weights \in [Callers -> 1..MaxWeight] :
            source_id # target_id
                /\ BeginCalls(source_id, target_id, relation_type, weights)
    \/ \E p \in Callers : CheckCall(p)
    \/ \E p \in Callers : WriteCall(p)
    \/ Return

SpecRace == InitRace /\ [][NextRace]_vars

(***************************************************************************)
(* DataService.get_network_data                                            *)
(***************************************************************************)
\* Whatever generate_data returns becomes the data of a success.
get_network_data(d, hide, order) ==
    [op |-> "get_network_data", success |-> TRUE,
     data |-> generate_data(d, hide, order)]

GetNetworkData(hide) ==
    /\ pc = "idle"
    /\ \E order \in IterationOrders(MainScholarIds(db, hide)) :
          result' = get_network_data(db, hide, order)
    /\ request' = [op |-> "get_network_data", hide |-> hide]
    /\ pc' = "done"
    /\ UNCHANGED <<db, seen>>

NextNetwork ==
    \/ \E hide \in BOOLEAN : GetNetworkData(hide)
    \/ Return

SpecNetwork == InitSmall /\ [][NextNetwork]_vars

(***************************************************************************)
(* The populous specification: generate_data over stores whose number of   *)
(* primaries is around the limit of get_main_scholars.                     *)
(***************************************************************************)
PopulousDbs ==
    {LargeDb(np, status, conn, e) :
        np \in (MainScholarsLimit - 1)..(MainScholarsLimit + ExtraMain),
        status \in [1..NumSecondary -> {0, 2}],
        conn \in [1..NumSecondary -> 0..1],
        e \in BOOLEAN}

InitPopulous == db \in PopulousDbs /\ InitRequest

NextPopulous ==
    \/ \E hide \in BOOLEAN : GenerateData(hide)
    \/ Return

SpecPopulous == InitPopulous /\ [][NextPopulous]_vars

(***************************************************************************)
(* The read-only specification: the two graph requests on the shared       *)
(* connection, between add_scholar_by_id calls that may leave a            *)
(* transaction open.                                                       *)
(***************************************************************************)
\* A SELECT that commits the open transaction of the connection.
Select_commit(conn) == commit(conn)

\* DBManager.execute of a SELECT, and cursor.execute of one on the shared
\* connection: no row changes and an open transaction stays open.
Select(conn) == conn

\* generate_data(hide_not_interested) on the store as the connection shows
\* it.
GenerateDataOnConnection(hide) ==
    /\ pc = "idle"
    /\ \E order \in IterationOrders(MainScholarIds(db, hide)) :
          result' = generate_data(db, hide, order)
    /\ db' = Close(db, Select(Open(db)))
    /\ request' = [op |-> "generate_data", hide |-> hide, before |-> db]
    /\ pc' = "done"
    /\ UNCHANGED seen

\* The option bags of the read-only specification.
ReadBags ==
    {params \in OptionBags : Supplied(params) \subseteq {"hideNotInterested", "minCitations"}}

\* filter_network_data(filter_params) on the store as the connection shows
\* it.
FilterNetworkDataOnConnection(params) ==
    /\ pc = "idle"
    /\ LET hide == CoerceHide(params)
           valid == FilteredNodeIds(db, FilterCandidates(db, params), hide)
       IN  \E order \in IterationOrders(valid) :
              result' = filter_network_data(db, params, order)
    /\ db' = Close(db, Select(Open(db)))
    /\ request' = [op |-> "filter_network_data", params |-> params, before |-> db]
    /\ pc' = "done"
    /\ UNCHANGED seen

NextReadOnly ==
    \/ \E data \in ScholarFiles : AddScholarById(data)
    \/ \E hide \in BOOLEAN : GenerateDataOnConnection(hide)
    \/ \E params \in ReadBags : FilterNetworkDataOnConnection(params)
    \/ Return

SpecReadOnly == InitImport /\ [][NextReadOnly]_vars

(***************************************************************************)
(* The status specification: imports of one scholar, through the importer  *)
(* and through the service, between changes of role status.                *)
(***************************************************************************)
\* ScholarService.update_scholar(scholar_id, is_main_scholar): refused
\* without a scholars row and an entity; nothing is written when the role
\* status is already the given one.
UpdateScholar(scholar_id, is_main_scholar) ==
    /\ pc = "idle"
    /\ LET conn == Open(db)
           found == /\ scholar_exists(conn.view, scholar_id)
                    /\ entity_exists(conn.view, scholar_id)
           changed == /\ found
                      /\ conn.view.scholars[scholar_id].is_main_scholar
                            # is_main_scholar
       IN  /\ db' = IF changed
                    THEN Close(db, update_scholar(conn, scholar_id, is_main_scholar))
                    ELSE db
           /\ result' = [op |-> "update_scholar", success |-> found]
    /\ request' = [op |-> "update_scholar", scholar_id |-> scholar_id,
                   is_main_scholar |-> is_main_scholar, before |-> db]
    /\ pc' = "done"
    /\ UNCHANGED seen

NextStatus ==
    \/ \E data \in ScholarFiles : ImportScholarFile(data)
    \/ \E data \in ScholarFiles : AddScholarById(data)
    \/ \E scholar_id \in ImportedIds, is_main_scholar \in {0, 1, 2} :
          UpdateScholar(scholar_id, is_main_scholar)
    \/ Return

SpecStatus == InitImport /\ [][NextStatus]_vars

(***************************************************************************)
(* Properties of the consolidation.                                        *)
(***************************************************************************)
\* The relationship rows from scholar x to scholar y, in table order.
PairRows(x, y) ==
    SelectSeq(db.relationships,
        LAMBDA r : /\ r.source_id = x /\ r.target_id = y
                   /\ r.source_type = "scholar" /\ r.target_type = "scholar")

Max(S) == CHOOSE m \in S : \A n \in S : n <= m

RecordsFor(records, y) == {k \in 1..Len(records) : records[k].scholar_id = y}

\* C2: in the list get_scholar_relationsips(X) returns, the record of an
\* endpoint Y carries a relation_type of the best (lowest-numbered) priority
\* among the types of the rows X -> Y, a collaboration_count equal to the
\* largest weight of those rows (not their sum), and all_relation_types
\* holding exactly the types of those rows; and every endpoint Y with such a
\* row has one record.
C2_PriorityTieBreak ==
    (pc = "done" /\ request.op = "get_scholar_relationsips") =>
        \A y \in DOMAIN db.scholars :
            LET rows == PairRows(request.scholar_id, y)
                recs == RecordsFor(result.records, y)
            IN  IF rows = <<>> THEN recs = {}
                ELSE /\ Cardinality(recs) = 1
                     /\ \A k \in recs :
                          LET rec == result.records[k] IN
                          /\ \E i \in 1..Len(rows) :
                                rec.relation_type = rows[i].relation_type
                          /\ \A i \in 1..Len(rows) :
                                get_relation_priority(rec.relation_type)
                                  <= get_relation_priority(rows[i].relation_type)
                          /\ rec.collaboration_count
                                = Max({rows[i].weight : i \in 1..Len(rows)})
                          /\ Range(rec.all_relation_types)
                                = {rows[i].relation_type : i \in 1..Len(rows)}

\* The pair (1, 2) holds a coauthor row of weight 2 and an advisor row of
\* weight 1, and the record returned for 2 is labelled advisor with weight 2.
C2_Witness ==
    /\ pc = "done" /\ request.op = "get_scholar_relationsips"
    /\ request.scholar_id = 1
    /\ \E i, j \in 1..Len(db.relationships) :
          /\ db.relationships[i] = Row(1, 2, "coauthor", 2)
          /\ db.relationships[j] = Row(1, 2, "advisor", 1)
    /\ \E k \in 1..Len(result.records) :
          /\ result.records[k].scholar_id = 2
          /\ result.records[k].relation_type = "advisor"
          /\ result.records[k].collaboration_count = 2
          /\ Range(result.records[k].all_relation_types) = {"advisor", "coauthor"}

RowOrders(n) ==
    {f \in [1..n -> 1..n] : \A i, j \in 1..n : f[i] = f[j] => i = j}

\* What a consolidated list says, order of the list and of the type lists
\* set aside: per endpoint the label, the weight and the set of types.
Summary(records) ==
    {[scholar_id |-> records[k].scholar_id,
      label |-> records[k].relation_type,
      weight |-> records[k].collaboration_count,
      types |-> Range(records[k].all_relation_types)] : k \in 1..Len(records)}

\* The scholar-to-scholar rows whose source is x, in table order.
RawRows(x) ==
    SelectSeq(db.relationships,
        LAMBDA r : /\ r.source_id = x
                   /\ r.source_type = "scholar" /\ r.target_type = "scholar")

\* The orders in which the query of get_scholar_relationsips can return
\* rows: ORDER BY weight DESC, rows of equal weight in any order.
QueryOrders(rows) ==
    {f \in RowOrders(Len(rows)) :
        \A i, j \in 1..Len(rows) : i < j => rows[f[i]].weight >= rows[f[j]].weight}

\* C3: consolidating the raw rows of a scholar again, in any row order the
\* query can return them, gives per endpoint the label, the weight and the
\* set of types that get_scholar_relationsips returned, unrecognised
\* relation types included.
C3_OrderIndependent ==
    (pc = "done" /\ request.op = "get_scholar_relationsips") =>
        LET rows == RawRows(request.scholar_id) IN
        \A f \in QueryOrders(rows) :
            Summary(ConsolidateRows([k \in 1..Len(rows) |-> rows[f[k]]],
                                    RelationshipsLimit, 0))
              = Summary(result.records)

(***************************************************************************)
(* Properties of the graphs.                                               *)
(***************************************************************************)
GraphDone(op) == pc = "done" /\ request.op = op

NodeIds == {n.id : n \in result.nodes}

PrimaryIds == {n.id : n \in {m \in result.nodes : m.group = "primary"}}

SecondaryNodeIdsOf == {n.id : n \in {m \in result.nodes : m.group = "secondary"}}

\* The role status of a scholar; -1 when the scholars table has no row.
Status(id) ==
    IF id \in DOMAIN db.scholars THEN db.scholars[id].is_main_scholar ELSE -1

\* Some scholar-to-scholar relationship row leads from x to y.
Linked(x, y) == PairRows(x, y) # <<>>

\* The connectivity count of an id: the primary nodes with a relationship
\* to it.
ConnectivityCount(id) == Cardinality({p \in PrimaryIds : Linked(p, id)})

\* The secondary ids the assembly refers to: endpoints of a relationship of
\* a primary node that are no primary node themselves, the NotInterested
\* ones left out when they are hidden.
ReferencedSecondaryIds(hide) ==
    {id \in DOMAIN db.entities \ PrimaryIds :
        ConnectivityCount(id) >= 1 /\ ~(hide /\ Status(id) = 2)}

\* A scholars row and an entity record exist.
Resolvable(id) == id \in DOMAIN db.scholars /\ id \in DOMAIN db.entities

\* C1: in every graph generate_data or filter_network_data returns, the
\* source and the target of each edge are ids of nodes of that graph.
C1_EdgePruning ==
    (GraphDone("generate_data") \/ GraphDone("filter_network_data")) =>
        \A e \in result.edges : e.source \in NodeIds /\ e.target \in NodeIds

\* generate_data returned edges, and a relationship row of one of its nodes
\* leads to a scholar that is no node: that edge was dropped.
C1_Witness ==
    /\ GraphDone("generate_data")
    /\ result.edges # {}
    /\ \E k \in 1..Len(db.relationships) :
          /\ db.relationships[k].source_id \in PrimaryIds
          /\ db.relationships[k].target_id \notin NodeIds

\* C4: with hideNotInterested = true in the option bag, whatever the other
\* options, no node and no edge endpoint of the graph filter_network_data
\* returns is a scholar of role status NotInterested (is_main_scholar = 2).
C4_FilterHidesNotInterested ==
    (GraphDone("filter_network_data")
        /\ request.params["hideNotInterested"] = PyBool(TRUE)) =>
        /\ \A id \in NodeIds : Status(id) # 2
        /\ \A e \in result.edges : Status(e.source) # 2 /\ Status(e.target) # 2

\* C5: generate_data(hide_not_interested = True) returns no node and no edge
\* endpoint of role status NotInterested.
C5_AssemblyHidesNotInterested ==
    (GraphDone("generate_data") /\ request.hide) =>
        /\ \A id \in NodeIds : Status(id) # 2
        /\ \A e \in result.edges : Status(e.source) # 2 /\ Status(e.target) # 2

\* generate_data(True) returned a graph, a primary node has a relationship
\* to a NotInterested scholar, and that scholar is no node.
C5_Witness ==
    /\ GraphDone("generate_data") /\ request.hide /\ ~result.failed
    /\ \E p \in PrimaryIds : \E id \in DOMAIN db.scholars :
          Status(id) = 2 /\ Linked(p, id) /\ id \notin NodeIds

\* A scholar passes the predicates the option bag supplies with a
\* well-formed value.
HasPublication(id, op, year) ==
    \E a \in db.authorship :
        a[1] = id /\ a[2] \in DOMAIN db.publications
          /\ Compare(db.publications[a[2]].year, op, year)

SatisfiesSupplied(id, params) ==
    /\ (params["minCitations"].t = "int" /\ params["minCitations"].n > 0)
          => db.scholars[id].citedby >= params["minCitations"].n
    /\ (params["yearFrom"].t = "int" /\ params["yearFrom"].n > 0)
          => HasPublication(id, ">=", params["yearFrom"].n)
    /\ (params["yearTo"].t = "int" /\ params["yearTo"].n < 9999)
          => HasPublication(id, "<=", params["yearTo"].n)
    /\ (params["minConnections"].t = "int" /\ params["minConnections"].n >= 1)
          => ConnectionCount(db, id) >= params["minConnections"].n
    /\ (Truthy(params["showPrimary"]) \/ Truthy(params["showSecondary"]))
          => \/ Truthy(params["showPrimary"]) /\ Status(id) = 1
             \/ Truthy(params["showSecondary"]) /\ Status(id) = 0

\* C6: for either boolean value of hideNotInterested and well-formed values
\* of the other options, every id of the candidate set the compiler produces
\* is a scholar that satisfies all the supplied predicates.
C6_FilterConjunction ==
    (GraphDone("filter_network_data")
        /\ request.params["hideNotInterested"].t = "bool"
        /\ \A key \in OptionKeys : request.params[key].t # "str") =>
        \A id \in result.candidates :
            id \in DOMAIN db.scholars /\ SatisfiesSupplied(id, request.params)

\* C7: with 20 or more primary nodes and a referenced secondary of
\* connectivity count > 2, the secondary nodes are the referenced, resolvable
\* secondaries of count > 2 and no others.
C7_StrictThreshold ==
    (GraphDone("generate_data") /\ ~result.failed
        /\ Cardinality(PrimaryIds) >= SizeThreshold
        /\ \E id \in ReferencedSecondaryIds(request.hide) :
              ConnectivityCount(id) > ConnectionThreshold) =>
        SecondaryNodeIdsOf =
            {id \in ReferencedSecondaryIds(request.hide) :
                Resolvable(id) /\ ConnectivityCount(id) > ConnectionThreshold}

\* 20 or more primaries, a secondary of count 2 left out and one of count 3
\* shown.
C7_Witness ==
    /\ GraphDone("generate_data") /\ ~result.failed
    /\ Cardinality(PrimaryIds) >= SizeThreshold
    /\ \E z, w \in ReferencedSecondaryIds(request.hide) :
          /\ Resolvable(z) /\ ConnectivityCount(z) = 2 /\ z \notin NodeIds
          /\ ConnectivityCount(w) = 3 /\ w \in SecondaryNodeIdsOf

\* C8: with 20 or more primary nodes and no referenced secondary of
\* connectivity count > 2, every referenced, resolvable secondary is a node.
C8_Fallback ==
    (GraphDone("generate_data") /\ ~result.failed
        /\ Cardinality(PrimaryIds) >= SizeThreshold
        /\ \A id \in ReferencedSecondaryIds(request.hide) :
              ConnectivityCount(id) <= ConnectionThreshold) =>
        SecondaryNodeIdsOf =
            {id \in ReferencedSecondaryIds(request.hide) : Resolvable(id)}

\* 20 or more primaries, no count above 2, and a secondary of count 2 shown.
C8_Witness ==
    /\ GraphDone("generate_data") /\ ~result.failed
    /\ Cardinality(PrimaryIds) >= SizeThreshold
    /\ \A id \in ReferencedSecondaryIds(request.hide) :
          ConnectivityCount(id) <= ConnectionThreshold
    /\ \E id \in SecondaryNodeIdsOf : ConnectivityCount(id) = 2

\* C9: with fewer than 20 primary nodes every referenced, resolvable
\* secondary is a node, whatever its connectivity count.
C9_SmallGraphComplete ==
    (GraphDone("generate_data") /\ ~result.failed
        /\ Cardinality(PrimaryIds) < SizeThreshold) =>
        \A id \in ReferencedSecondaryIds(request.hide) :
            Resolvable(id) => id \in SecondaryNodeIdsOf

\* 19 primaries, and both a secondary of count 1 and one of count 3 shown.
C9_Witness ==
    /\ GraphDone("generate_data") /\ ~result.failed
    /\ Cardinality(PrimaryIds) = SizeThreshold - 1
    /\ \E x, y \in SecondaryNodeIdsOf :
          ConnectivityCount(x) = 1 /\ ConnectivityCount(y) = 3

\* C10: a generate_data call returns the node ids and the edges that the
\* previous call with the same flag returned on the same store, and fails
\* when that one failed.
C10_Deterministic ==
    (GraphDone("generate_data") /\ seen[request.hide].op = "generate_data") =>
        /\ result.failed = seen[request.hide].failed
        /\ NodeIds = {n.id : n \in seen[request.hide].nodes}
        /\ result.edges = seen[request.hide].edges

\* A second call on a store of 20 or more primaries where the fallback
\* applies: no count above 2 and a secondary shown, as in the first call.
C10_Witness ==
    /\ GraphDone("generate_data") /\ ~result.failed
    /\ seen[request.hide].op = "generate_data"
    /\ Cardinality(PrimaryIds) >= SizeThreshold
    /\ \A id \in ReferencedSecondaryIds(request.hide) :
          ConnectivityCount(id) <= ConnectionThreshold
    /\ SecondaryNodeIdsOf # {}

(***************************************************************************)
(* Properties of the projected edges.                                      *)
(***************************************************************************)
\* The relation types an option bag asks to display; an option left out
\* counts as asked for.
RequestedTypes(params) ==
    {ty \in {"coauthor", "advisor", "colleague"} :
        \/ ty = "coauthor" /\ Truthy(Get(params, "showCoauthor", PyBool(TRUE)))
        \/ ty = "advisor" /\ Truthy(Get(params, "showAdvisor", PyBool(TRUE)))
        \/ ty = "colleague" /\ Truthy(Get(params, "showColleague", PyBool(TRUE)))}

EffectiveFilter(params) ==
    IF RequestedTypes(params) = {} THEN {"coauthor", "advisor", "colleague"}
    ELSE RequestedTypes(params)

\* The edges of the returned graph that join x and y, in either direction.
EdgesBetween(x, y) ==
    {e \in result.edges : {e.source, e.target} = {x, y}}

\* The consolidated relationship from x to y carries a label of the set.
LabelIn(x, y, types) ==
    \E k \in 1..Len(get_scholar_relationsips(db.relationships, x)) :
        LET rec == get_scholar_relationsips(db.relationships, x)[k]
        IN  rec.scholar_id = y /\ rec.relation_type \in types

\* C11: in a graph filter_network_data returns, no unordered pair of nodes
\* has more than one edge, and two nodes A and B with rows A -> B and B -> A
\* whose consolidated label passes the relation filter in a direction have
\* exactly one edge between them.
C11_ProjectorDedup ==
    GraphDone("filter_network_data") =>
        \A x, y \in NodeIds :
            /\ Cardinality(EdgesBetween(x, y)) <= 1
            /\ (/\ x # y /\ Linked(x, y) /\ Linked(y, x)
                /\ \/ LabelIn(x, y, EffectiveFilter(request.params))
                   \/ LabelIn(y, x, EffectiveFilter(request.params)))
                  => Cardinality(EdgesBetween(x, y)) = 1

\* C13: every edge of a graph filter_network_data returns has both ends in
\* the candidate set and a label of the effective relation filter: the
\* requested types, or all three when none is requested.
C13_ProjectorEdgeFilter ==
    GraphDone("filter_network_data") =>
        \A e \in result.edges :
            /\ e.source \in result.candidates
            /\ e.target \in result.candidates
            /\ e.label \in EffectiveFilter(request.params)

\* A request with one type switched off returned edges, and a pair of nodes
\* whose only relationship carries another label has no edge.
C13_Witness ==
    /\ GraphDone("filter_network_data")
    /\ RequestedTypes(request.params) \notin {{}, {"coauthor", "advisor", "colleague"}}
    /\ result.edges # {}
    /\ \E x, y \in NodeIds :
          /\ Linked(x, y) /\ ~Linked(y, x)
          /\ ~LabelIn(x, y, EffectiveFilter(request.params))
          /\ EdgesBetween(x, y) = {}

\* x and y are joined by a coauthor row in each direction, of equal weight.
SymmetricCoauthors(x, y) ==
    \E i, j \in 1..Len(db.relationships) :
        LET r == db.relationships[i]
            q == db.relationships[j]
        IN  /\ r.source_id = x /\ r.target_id = y /\ r.relation_type = "coauthor"
            /\ q.source_id = y /\ q.target_id = x /\ q.relation_type = "coauthor"
            /\ r.weight = q.weight

\* C12: in a graph generate_data returns, two nodes joined by a coauthor row
\* in each direction, of equal weight, have exactly one edge between them.
C12_AssembledSymmetry ==
    (GraphDone("generate_data") /\ ~result.failed) =>
        \A x, y \in NodeIds :
            (x # y /\ SymmetricCoauthors(x, y))
                => Cardinality(EdgesBetween(x, y)) = 1

\* C14: get_scholar_relationsips(X) returns one record for each scholar Y
\* with a scholar-to-scholar row X -> Y or Y -> X, and no record for any
\* other scholar.
C14_BothDirections ==
    GraphDone("get_scholar_relationsips") =>
        \A y \in DOMAIN db.scholars :
            Cardinality(RecordsFor(result.records, y)) =
                IF Linked(request.scholar_id, y) \/ Linked(y, request.scholar_id)
                THEN 1 ELSE 0

(***************************************************************************)
(* Properties of the write path.                                           *)
(***************************************************************************)
\* An import of one scholar has just ended in failure: the importer
\* returned False, or the loop of import_data rolled its file back.
ImportFailed ==
    \/ pc = "done" /\ request.op = "import_scholar_file" /\ ~result.success
    \/ pc = "importing" /\ request.next > 1 /\ ~request.success

\* C15: when the import of one scholar fails after some of its writes were
\* issued, the store a later read sees is the store before that import
\* began.
C15_ImportAtomicity ==
    ImportFailed => Tables(db) = Tables(request.before)

\* C16: no two rows of the relationships table share the same
\* (source_id, target_id, relation_type) triple, whatever imports,
\* re-imports and add_relationship calls were made.
C16_UniqueTriples ==
    \A i \in 1..Len(db.relationships), j \in 1..Len(db.relationships) :
        i # j =>
            ~SameTriple(db.relationships[i], db.relationships[j].source_id,
                        db.relationships[j].target_id,
                        db.relationships[j].relation_type)

\* The relationship rows after the two calls of the request made one after
\* the other, in either order.
SequentialRows ==
    {create_relationship(
        create_relationship(Open(request.before), request.source_id,
                            request.target_id, request.relation_type,
                            request.calls[order[1]].weight),
        request.source_id, request.target_id, request.relation_type,
        request.calls[order[2]].weight).view.relationships :
     order \in {<<1, 2>>, <<2, 1>>}}

RaceDone == pc = "done" /\ request.op = "create_relationship"

\* C17: create_relationship is a check-then-write: when both concurrent
\* calls for one triple made their existence test before either wrote, and
\* the triple had no row, the final rows differ from the rows of both
\* sequential executions; in every other interleaving they are the rows of
\* a sequential execution.
C17_UpsertRace ==
    RaceDone =>
        ((\A p \in Callers : ~request.calls[p].exists)
            <=> db.relationships \notin SequentialRows)

\* Both calls found no row and both inserted: two rows of the same triple,
\* where every sequential execution leaves one row with the summed weight.
C17_Witness ==
    /\ RaceDone
    /\ \A p \in Callers : ~request.calls[p].exists
    /\ db.relationships \notin SequentialRows
    /\ Len(db.relationships) = Len(request.before.relationships) + 2

(***************************************************************************)
(* Properties of get_network_data.                                         *)
(***************************************************************************)
\* C18: when no scholar with a resolvable entity has role status Primary,
\* generate_data yields its failure and get_network_data reports a failure
\* (success false) to its caller.
C18_ExplicitFailure ==
    (/\ GraphDone("get_network_data")
     /\ \A id \in DOMAIN db.scholars : ~(Status(id) = 1 /\ Resolvable(id)))
        => result.data.failed /\ ~result.success

(***************************************************************************)
(* Properties of the filter compiler under malformed and relaxed bags.     *)
(***************************************************************************)
\* The options whose values the compiler compares as numbers, and those of
\* them a bag supplies with a value that is no number.
NumericKeys ==
    {"minCitations", "minCitationsLt", "minCitationsEq", "yearFrom", "yearTo",
     "yearEq", "minConnections"}

Malformed(params) == {key \in NumericKeys : params[key].t = "str"}

\* C19: when one option of the bag carries a value of the wrong type,
\* filter_network_data does not raise and only that predicate is dropped:
\* every candidate still satisfies every other supplied valid predicate, and
\* with the visibility flag on (or absent) no candidate is NotInterested.
C19_MalformedDropped ==
    (GraphDone("filter_network_data")
        /\ Cardinality(Malformed(request.params)) = 1) =>
        /\ ~result.failed
        /\ \A id \in result.candidates :
              /\ id \in DOMAIN db.scholars
              /\ SatisfiesSupplied(id, request.params)
              /\ request.params["hideNotInterested"] \in {Absent, PyBool(TRUE)}
                    => Status(id) # 2

\* The option bag with one key removed.
Without(params, key) == [params EXCEPT ![key] = Absent]

\* C20: for the option bag of a filter request and every key the bag
\* supplies, the candidate set computed on the same store for the bag with
\* that key removed contains the candidate set computed for the bag.
C20_MonotonicRelaxation ==
    GraphDone("filter_network_data") =>
        \A key \in Supplied(request.params) :
            result.candidates \subseteq
                Range(FilterCandidates(db, Without(request.params, key)))

(***************************************************************************)
(* Properties of the default candidate set and of store failures.          *)
(***************************************************************************)
\* C21: when the option bag supplies hideNotInterested = true and nothing
\* else, the candidate set is the set of all scholars of the store that are
\* not NotInterested, those without relationship rows included.
C21_DefaultCandidates ==
    (GraphDone("filter_network_data")
        /\ Supplied(request.params) = {"hideNotInterested"}
        /\ request.params["hideNotInterested"] = PyBool(TRUE)) =>
        result.candidates = {id \in DOMAIN db.scholars : Status(id) # 2}

\* The regular candidate query of the request ran and failed at the store.
StoreQueryFailed ==
    /\ CoerceHide(request.params)
    /\ QueryRaises(build_filter_sql(CoercedParams(request.params)))

\* C22: when the candidate query fails at the store, filter_network_data
\* returns an explicit failure, not the successful empty graph it returns
\* when the query succeeds and no scholar matches.
C22_StoreFailureDistinct ==
    (GraphDone("filter_network_data") /\ StoreQueryFailed) => result.failed

(***************************************************************************)
(* Properties of the stored role status and of the coauthor rows.          *)
(***************************************************************************)
\* C23: after every completed import or add-scholar operation, each row of
\* scholars holds one role status of 0 (Secondary), 1 (Primary) or
\* 2 (NotInterested), a scholar newly created through import_data included.
C23_RoleStatus ==
    (pc = "done" /\ request.op # "none") =>
        \A id \in DOMAIN db.scholars : db.scholars[id].is_main_scholar \in {0, 1, 2}

\* A completed, successful import of one scholar through the importer or
\* through the service.
ImportSucceeded ==
    /\ pc = "done"
    /\ request.op \in {"import_scholar_file", "add_scholar_by_id"}
    /\ result.success

\* The weights of the coauthor rows the store holds from x to y.
CoauthorWeights(x, y) ==
    {db.relationships[k].weight :
        k \in {i \in 1..Len(db.relationships) :
                  SameTriple(db.relationships[i], x, y, "coauthor")}}

\* C24: after a scholar A with coauthor B is imported through the importer
\* or through the service, the store holds a coauthor row A->B and a
\* coauthor row B->A, and the two rows have equal weight.
C24_SymmetricStorage ==
    ImportSucceeded =>
        \A k \in 1..Len(request.data.coauthors) :
            request.data.coauthors[k].t = "dict" =>
                LET A == request.data.scholar_id
                    B == request.data.coauthors[k].scholar_id
                IN  /\ CoauthorWeights(A, B) # {}
                    /\ CoauthorWeights(A, B) = CoauthorWeights(B, A)

(***************************************************************************)
(* Properties of the node list.                                            *)
(***************************************************************************)
\* C25: the node list generate_data returns holds a node of group "primary"
\* for every scholar of role status Primary whose entity record resolves,
\* however many Primary scholars the store holds.
C25_PrimaryComplete ==
    (GraphDone("generate_data") /\ ~result.failed) =>
        \A id \in DOMAIN db.scholars :
            (Status(id) = 1 /\ Resolvable(id)) => Node(id, "primary") \in result.nodes

\* The group the role status of a scholar calls for.
GroupOf(id) ==
    CASE Status(id) = 2 -> "not-interested"
      [] Status(id) = 1 -> "primary"
      [] OTHER -> "secondary"

\* A graph request with the visibility flag false.
ShownAll ==
    \/ GraphDone("generate_data") /\ ~request.hide
    \/ GraphDone("filter_network_data")
         /\ request.params["hideNotInterested"] = PyBool(FALSE)

\* C26: with the visibility flag false, in the graph generate_data or
\* filter_network_data returns every node of a NotInterested scholar has
\* group "not-interested", every node of a Primary scholar has group
\* "primary", and every other node has group "secondary".
C26_NodeGroups ==
    ShownAll => \A n \in result.nodes : n.group = GroupOf(n.id)

(***************************************************************************)
(* Properties of the graph requests as reads.                              *)
(***************************************************************************)
ReadDone ==
    pc = "done" /\ request.op \in {"generate_data", "filter_network_data"}

\* C27: generate_data and filter_network_data leave every table of the
\* store as it was, in what the connection shows and in what is committed,
\* on every outcome, failures and empty results included.
C27_ReadOnly == ReadDone => db = request.before

\* filter_network_data returned the empty graph on a store that holds
\* scholars and an uncommitted row.
C27_Witness ==
    /\ GraphDone("filter_network_data")
    /\ result.nodes = {}
    /\ DOMAIN db.scholars # {}
    /\ db.in_transaction
    /\ Tables(db) # db.saved

(***************************************************************************)
(* Properties of the de-duplication key and of the visit order.            *)
(***************************************************************************)
\* C28: in a graph filter_network_data returns, every pair of distinct
\* nodes with a consolidated relationship whose label is in the relation
\* filter is joined by an edge: the key of one pair never suppresses the
\* edge of another pair, for ids holding "-" as for the others.
C28_NoKeyCollision ==
    GraphDone("filter_network_data") =>
        \A x, y \in NodeIds :
            (/\ x # y
             /\ \/ LabelIn(x, y, EffectiveFilter(request.params))
                \/ LabelIn(y, x, EffectiveFilter(request.params)))
                => EdgesBetween(x, y) # {}

\* What the edges of a graph say of each joined pair, the direction left
\* out.
EdgeTraits(edges) ==
    {[pair |-> {e.source, e.target}, label |-> e.label, weight |-> e.weight,
      all_relations |-> e.all_relations] : e \in edges}

\* C29: the label, the weight and the all_relations of the edge
\* filter_network_data emits for a pair of nodes are those it emits when the
\* node ids are visited in any other order.
C29_VisitOrderIndependent ==
    GraphDone("filter_network_data") =>
        LET valid == FilteredNodeIds(db, FilterCandidates(db, request.params),
                                     CoerceHide(request.params))
        IN  \A order \in IterationOrders(valid) :
                EdgeTraits(filter_network_data(db, request.params, order).edges)
                    = EdgeTraits(result.edges)

(***************************************************************************)
(* Properties of the role status across imports.                           *)
(***************************************************************************)
\* A completed import of one scholar through the importer or through the
\* service, whatever its outcome.
ImportDone ==
    /\ pc = "done"
    /\ request.op \in {"import_scholar_file", "add_scholar_by_id"}

====
